---- MODULE Spec2Model ----
(***************************************************************************)
(* A model of class Model of DNN_ImageClassifier.py: the parameter store,  *)
(* the activation cache, the cost history and the training loop.           *)
(*                                                                         *)
(* Arrays are modelled by their numpy shape and by a symbolic value: a     *)
(* term that records which operation produced the array from which         *)
(* operands.  Parameters are referred to inside terms by their version     *)
(* (the number of updates applied to them).  Costs are integers in units   *)
(* of 1e-5, so that the epsilon of the early-stopping rule is exactly 1.   *)
(***************************************************************************)
EXTENDS Integers, Sequences, FiniteSets, TLC

\* ------------------------------------------------------------- bounds
MaxLayers == 4      \* longest layer specification
MaxCalls == 2       \* calls made on one Model
MaxFree == 4        \* costs of a Model's life that are drawn freely
ShortRun == 4       \* the small num_iters
LongRun == 51       \* the num_iters that reaches iteration index 50
MaxSamples == 2     \* most samples m of a training set

\* ------------------------------------------------- program constants
ImgFeatures == 12288    \* 64*64*3, predict's reshape
PrintEvery == 50        \* i%50 == 0
Epsilon == 1            \* 1e-5, in units of 1e-5
ThresholdInv == 4       \* growth_rate < 0.25  <=>  4*num < den (den > 0)

HiddenSizes == {2, 3}
CostVals == {49000, 50000, 100000}     \* 0.49, 0.5, 1.0
TailStep == 1000                       \* 0.01

None == [op |-> "None"]

\* ------------------------------------------------------ numpy shapes
ShapeErr == <<>>

\* np.dot of two 2-D arrays
Dot(s, t) ==
  IF s = ShapeErr \/ t = ShapeErr THEN ShapeErr
  ELSE IF s[2] = t[1] THEN <<s[1], t[2]>> ELSE ShapeErr

BcastDim(a, b) == IF a = b THEN a ELSE IF a = 1 THEN b ELSE IF b = 1 THEN a ELSE 0

\* the shape of an elementwise operation (+, -, *, /) on two 2-D arrays
Bcast(s, t) ==
  IF s = ShapeErr \/ t = ShapeErr THEN ShapeErr
  ELSE IF BcastDim(s[1], t[1]) = 0 \/ BcastDim(s[2], t[2]) = 0 THEN ShapeErr
  ELSE <<BcastDim(s[1], t[1]), BcastDim(s[2], t[2])>>

\* A.T
Transpose(s) == IF s = ShapeErr THEN ShapeErr ELSE <<s[2], s[1]>>

\* np.sum(A, axis=1, keepdims=True)
SumRows(s) == IF s = ShapeErr THEN ShapeErr ELSE <<s[1], 1>>

RECURSIVE Size(_)
Size(s) == IF s = <<>> THEN 1 ELSE Head(s) * Size(Tail(s))

\* X.reshape(r, c): the element count must be kept
Reshape(s, r, c) == IF Size(s) = r * c THEN <<r, c>> ELSE ShapeErr

\* np.squeeze: the axes of length 1 are dropped
RECURSIVE Squeeze(_)
Squeeze(s) ==
  IF s = <<>> THEN <<>>
  ELSE IF Head(s) = 1 THEN Squeeze(Tail(s)) ELSE <<Head(s)>> \o Squeeze(Tail(s))

\* ---------------------------------------------------------- the state
VARIABLES layers, learning_rate, num_iters, parameters, cache, growth_rate,
          J_hist, out, pc, i, X, y, cost, grads, outcome, call, calls, itersDone

vars == <<layers, learning_rate, num_iters, parameters, cache, growth_rate,
          J_hist, out, pc, i, X, y, cost, grads, outcome, call, calls, itersDone>>

config == <<layers, learning_rate, num_iters>>

\* python's layers[k], k from 0
Layer(ls, k) == ls[k + 1]

\* python's cache[k], k from 0, and cache[-k]
At(c, k) == c[k + 1]
FromEnd(c, k) == c[Len(c) + 1 - k]

\* L = len(self.parameters)//2
NumLayers(params) == Cardinality(DOMAIN params) \div 2

\* ------------------------------------------------ initialize_parameters
InitWShape(ls, k) == <<Layer(ls, k), Layer(ls, k - 1)>>

InitBShape(ls, k) == <<Layer(ls, k), 1>>

InitializeParameters(ls) ==
  [n \in {"W", "b"} \X (1 .. Len(ls) - 1) |->
     IF n[1] = "W"
     THEN [shape |-> InitWShape(ls, n[2]), ver |-> 0,
           by |-> [op |-> "randn*0.1", layer |-> n[2]]]
     ELSE [shape |-> InitBShape(ls, n[2]), ver |-> 0,
           by |-> [op |-> "zeros", layer |-> n[2]]]]

\* --------------------------------------------------------- feed_forward
\* Z = np.dot(W, A_prev) + b
Affine(params, k, A) ==
  [shape |-> Bcast(Dot(params[<<"W", k>>].shape, A.shape), params[<<"b", k>>].shape),
   val |-> [op |-> "affine", layer |-> k, w |-> params[<<"W", k>>].ver,
            b |-> params[<<"b", k>>].ver, a |-> A.val]]

Activate(f, Z) == [shape |-> Z.shape, val |-> [op |-> f, z |-> Z.val]]

\* a feed_forward that never truncates the cache
ResetCacheKeepAll(c, A) == IF Len(c) = 0 THEN <<[A |-> A]>> ELSE c

\* the first lines of feed_forward: an empty cache gets the input record, any
\* other cache keeps its record 0
ResetCache(c, A) == IF Len(c) = 0 THEN <<[A |-> A]>> ELSE <<c[1]>>

\* the layers k..L of feed_forward; a shape error leaves the cache as it is then
RECURSIVE ForwardFrom(_, _, _, _)
ForwardFrom(params, c, A, k) ==
  LET L == NumLayers(params)
      Z == Affine(params, k, A)
      Ak == Activate(IF k < L THEN "relu" ELSE "sigmoid", Z)
  IN  IF Z.shape = ShapeErr THEN [cache |-> c, A |-> None, err |-> "ValueError"]
      ELSE IF k < L THEN ForwardFrom(params, Append(c, [A |-> Ak, Z |-> Z]), Ak, k + 1)
      ELSE [cache |-> Append(c, [A |-> Ak, Z |-> Z]), A |-> Ak, err |-> "none"]

FeedForward(params, c, A) == ForwardFrom(params, ResetCache(c, A), A, 1)

\* ----------------------------------------------------------- computeCost
\* The cost is a function of the data and of the parameters' values, which the
\* model does not hold: it is drawn from CostVals for the first MaxFree costs of a
\* Model's life and rises by TailStep after that.
CostChoices(J) == IF Len(J) < MaxFree THEN CostVals ELSE {J[Len(J)] + TailStep}

\* -------------------------------------------------------- back_propagate
\* dA and dZ of the output layer
OutputDZ(c, yy) ==
  LET AL == FromEnd(c, 1).A
      ZL == FromEnd(c, 1).Z
      dA == [shape |-> Bcast(yy.shape, AL.shape),
             val |-> [op |-> "dA_out", y |-> yy.val, a |-> AL.val]]
  IN  [shape |-> Bcast(dA.shape, ZL.shape),
       val |-> [op |-> "dZ", act |-> "dsigmoid", da |-> dA.val, z |-> ZL.val]]

\* dZ of a hidden layer
HiddenDZ(dA, Z) ==
  [shape |-> Bcast(dA.shape, Z.shape),
   val |-> [op |-> "dZ", act |-> "drelu", da |-> dA.val, z |-> Z.val]]

\* np.dot(A_prev, dZ.T) in the place of np.dot(dZ, A_prev.T)
GradWTransposed(dZ, Aprev, m) ==
  [shape |-> Dot(Aprev.shape, Transpose(dZ.shape)),
   val |-> [op |-> "dW", m |-> m, dz |-> dZ.val, a |-> Aprev.val]]

\* dW = 1./m * np.dot(dZ, A_prev.T)
GradW(dZ, Aprev, m) ==
  [shape |-> Dot(dZ.shape, Transpose(Aprev.shape)),
   val |-> [op |-> "dW", m |-> m, dz |-> dZ.val, a |-> Aprev.val]]

\* db = 1./m * np.sum(dZ, axis=1, keepdims=True)
GradB(dZ, m) ==
  [shape |-> SumRows(dZ.shape), val |-> [op |-> "db", m |-> m, dz |-> dZ.val]]

\* da_prev = np.dot(W.T, dZ)
PrevDA(params, k, dZ) ==
  [shape |-> Dot(Transpose(params[<<"W", k>>].shape), dZ.shape),
   val |-> [op |-> "dA", layer |-> k, w |-> params[<<"W", k>>].ver, dz |-> dZ.val]]

\* the gradients of layer k, given its dZ and the record of the layer before it
LayerGrads(k, dZ, Aprev, m) ==
  (<<"dW", k>> :> GradW(dZ, Aprev, m)) @@ (<<"db", k>> :> GradB(dZ, m))

GradsOk(g) == \A n \in DOMAIN g : g[n].shape # ShapeErr

\* the loop over the hidden layers, k = L-1 down to 1
RECURSIVE BackFrom(_, _, _, _, _, _)
BackFrom(params, c, m, k, dA, g) ==
  IF k < 1 THEN [grads |-> g, err |-> "none"]
  ELSE LET dZ == HiddenDZ(dA, At(c, k).Z)
           gk == LayerGrads(k, dZ, At(c, k - 1).A, m)
           da == PrevDA(params, k, dZ)
       IN  IF dZ.shape = ShapeErr \/ ~GradsOk(gk) \/ da.shape = ShapeErr
           THEN [grads |-> None, err |-> "ValueError"]
           ELSE BackFrom(params, c, m, k - 1, da, gk @@ g)

BackPropagate(params, c, yy) ==
  LET L == NumLayers(params)
      m == yy.shape[2]
      dZ == OutputDZ(c, yy)
      gL == LayerGrads(L, dZ, FromEnd(c, 2).A, m)
      da == PrevDA(params, L, dZ)
  IN  IF dZ.shape = ShapeErr \/ ~GradsOk(gL) \/ da.shape = ShapeErr
      THEN [grads |-> None, err |-> "ValueError"]
      ELSE BackFrom(params, c, m, L - 1, da, gL)

\* ------------------------------------------- train: the parameter update
\* p - learning_rate * g
Descent(p, g, lr) ==
  [shape |-> Bcast(p.shape, g.shape), ver |-> p.ver + 1,
   by |-> [op |-> "sub", base |-> p.ver, lr |-> lr, g |-> g.val]]

\* for j in range(1, len(self.layers)): the layers j..n-1, one after the other
RECURSIVE UpdateFrom(_, _, _, _, _)
UpdateFrom(params, g, lr, j, n) ==
  IF j > n - 1 THEN [parameters |-> params, err |-> "none"]
  ELSE LET W1 == Descent(params[<<"W", j>>], g[<<"dW", j>>], lr)
           p1 == [params EXCEPT ![<<"W", j>>] = W1]
           b1 == Descent(params[<<"b", j>>], g[<<"db", j>>], lr)
           p2 == [p1 EXCEPT ![<<"b", j>>] = b1]
       IN  IF W1.shape = ShapeErr THEN [parameters |-> params, err |-> "ValueError"]
           ELSE IF b1.shape = ShapeErr THEN [parameters |-> p1, err |-> "ValueError"]
           ELSE UpdateFrom(p2, g, lr, j + 1, n)

\* range(1, len(self.layers) - 1): the output layer is never updated
ApplyGradientsSkipLast(params, g, lr, ls) ==
  IF Len(ls) = 2 THEN [parameters |-> params, err |-> "none"]
  ELSE UpdateFrom(params, g, lr, 1, Len(ls) - 1)

ApplyGradients(params, g, lr, ls) == UpdateFrom(params, g, lr, 1, Len(ls))

\* ------------------------------------------ train: the early-stopping rule
\* if len(self.J_hist) > 3
ShouldCheck(J) == Len(J) > 3

\* (J[-1]-J[-2]) / (J[-2]-J[-3]+epsilon), as <<numerator, denominator>>
GrowthRate(J) ==
  LET n == Len(J) IN <<J[n] - J[n - 1], J[n - 1] - J[n - 2] + Epsilon>>

\* growth_rate > 0.25 in the place of growth_rate < 0.25
SlowFlipped(g) ==
  IF g[2] > 0 THEN ThresholdInv * g[1] > g[2]
  ELSE IF g[2] < 0 THEN ThresholdInv * g[1] < g[2]
  ELSE g[1] > 0

\* growth_rate < 0.25, in floating point: x/0 is +inf, -inf or nan
Slow(g) ==
  IF g[2] > 0 THEN ThresholdInv * g[1] < g[2]
  ELSE IF g[2] < 0 THEN ThresholdInv * g[1] > g[2]
  ELSE g[1] < 0

\* self.J_hist = [cost] in the place of the append
RecordCostOnly(J, c) == <<c>>

\* self.J_hist.append(cost)
RecordCost(J, c) == Append(J, c)

\* if i%50 == 0: print(...), reached only when the loop was not left
CostLines(k, c) ==
  IF k % PrintEvery = 0 THEN <<[kind |-> "Cost at iteration", i |-> k, cost |-> c]>>
  ELSE <<>>

FinalLine(c) == [kind |-> "Final cost is", cost |-> c]

\* ------------------------------------------------------------- the inputs
LayerSpecs ==
  {<<ImgFeatures, 1>>} \cup
  (IF MaxLayers >= 3 THEN {<<ImgFeatures, h, 1>> : h \in HiddenSizes} ELSE {}) \cup
  (IF MaxLayers >= 4
   THEN {<<ImgFeatures, h[1], h[2], 1>> : h \in {p \in HiddenSizes \X HiddenSizes : p[1] > p[2]}}
   ELSE {})

NumIters == {1, ShortRun, LongRun}

LearningRates == {5}      \* 0.0005, in units of 1e-4

\* the training sets: X of shape (n, m) and y of shape (1, m)
TrainSets(ls) ==
  {[X |-> [shape |-> <<Layer(ls, 0), m>>, val |-> [op |-> "data", id |-> <<"X", m>>]],
    y |-> [shape |-> <<1, m>>, val |-> [op |-> "data", id |-> <<"y", m>>]]]
     : m \in 1 .. MaxSamples}

Images == {[shape |-> <<64, 64, 3>>, val |-> [op |-> "data", id |-> <<"img", 0>>]]}

NoInt == -1

\* ------------------------------------------------------------- __init__
Init ==
  /\ layers \in LayerSpecs
  /\ learning_rate \in LearningRates
  /\ num_iters \in NumIters
  /\ parameters = InitializeParameters(layers)
  /\ cache = <<>>
  /\ growth_rate = None
  /\ J_hist = <<>>
  /\ out = <<>>
  /\ pc = "idle"
  /\ i = NoInt /\ cost = NoInt
  /\ X = None /\ y = None /\ grads = None
  /\ outcome = "none"
  /\ call = [name |-> "__init__"]
  /\ calls = 0
  /\ itersDone = 0

\* an exception leaves the call: its locals are gone
Raise(e) ==
  /\ pc' = "idle" /\ outcome' = e
  /\ i' = NoInt /\ cost' = NoInt /\ X' = None /\ y' = None /\ grads' = None

NoLocals == /\ i' = NoInt /\ cost' = NoInt /\ X' = None /\ y' = None /\ grads' = None

\* ---------------------------------------------------------------- train
TrainCall(d) ==
  /\ pc = "idle" /\ calls < MaxCalls
  /\ calls' = calls + 1
  /\ call' = [name |-> "train", X |-> d.X.val.id]
  /\ X' = d.X /\ y' = d.y
  /\ i' = 0 /\ pc' = "forward" /\ outcome' = "Running"
  /\ UNCHANGED <<config, parameters, cache, growth_rate, J_hist, out, cost, grads, itersDone>>

\* predictions = self.feed_forward(X); cost = self.computeCost(y, predictions)
TrainForward ==
  /\ pc = "forward"
  /\ LET r == FeedForward(parameters, cache, X)
     IN  /\ cache' = r.cache
         /\ IF r.err # "none"
            THEN Raise(r.err)
            ELSE /\ cost' \in CostChoices(J_hist)
                 /\ pc' = "backward"
                 /\ UNCHANGED <<i, X, y, grads, outcome>>
  /\ UNCHANGED <<config, parameters, growth_rate, J_hist, out, call, calls, itersDone>>

\* grads = self.back_propagate(X, y)
TrainBackward ==
  /\ pc = "backward"
  /\ LET r == BackPropagate(parameters, cache, y)
     IN  IF r.err # "none"
         THEN Raise(r.err)
         ELSE /\ grads' = r.grads
              /\ pc' = "update"
              /\ UNCHANGED <<i, X, y, cost, outcome>>
  /\ UNCHANGED <<config, parameters, cache, growth_rate, J_hist, out, call, calls, itersDone>>

\* the loop over j that adjusts the parameters of each layer
TrainUpdate ==
  /\ pc = "update"
  /\ LET r == ApplyGradients(parameters, grads, learning_rate, layers)
     IN  /\ parameters' = r.parameters
         /\ IF r.err # "none"
            THEN Raise(r.err)
            ELSE /\ pc' = "record"
                 /\ UNCHANGED <<i, X, y, cost, grads, outcome>>
  /\ UNCHANGED <<config, cache, growth_rate, J_hist, out, call, calls, itersDone>>

\* the rest of the loop body, and the loop's next step
TrainRecord ==
  /\ pc = "record"
  /\ LET J == RecordCost(J_hist, cost)
         g == IF ShouldCheck(J) THEN GrowthRate(J) ELSE growth_rate
     IN  /\ J_hist' = J
         /\ growth_rate' = g
         /\ IF ShouldCheck(J) /\ Slow(g)
            THEN /\ pc' = "finish" /\ outcome' = "Converged"      \* break
                 /\ UNCHANGED <<out, i>>
            ELSE /\ out' = out \o CostLines(i, cost)
                 /\ IF i + 1 < num_iters
                    THEN /\ i' = i + 1 /\ pc' = "forward" /\ UNCHANGED outcome
                    ELSE /\ pc' = "finish" /\ outcome' = "Exhausted" /\ UNCHANGED i
  /\ itersDone' = itersDone + 1
  /\ UNCHANGED <<config, parameters, cache, X, y, cost, grads, call, calls>>

\* print('Final cost is:', cost); self.cache.clear()
TrainFinish ==
  /\ pc = "finish"
  /\ out' = Append(out, FinalLine(cost))
  /\ cache' = <<>>
  /\ pc' = "idle"
  /\ NoLocals
  /\ UNCHANGED <<config, parameters, growth_rate, J_hist, outcome, call, calls, itersDone>>

\* -------------------------------------------------------------- predict
\* X.reshape(64*64*3, 1) / 255
Prepare(img) ==
  [shape |-> Reshape(img.shape, ImgFeatures, 1),
   val |-> [op |-> "/255", of |-> [op |-> "reshape", of |-> img.val]]]

PredictionLine(A) ==
  [kind |-> "Prediction", value |-> [shape |-> Squeeze(A.shape), val |-> A.val]]

\* X_flatten is bound only when prepare is True
Predict(img, prepare) ==
  /\ pc = "idle" /\ calls < MaxCalls
  /\ calls' = calls + 1
  /\ call' = [name |-> "predict", X |-> img.val.id, prepare |-> prepare]
  /\ IF ~prepare
     THEN /\ outcome' = "UnboundLocalError"
          /\ UNCHANGED <<cache, out>>
     ELSE IF Prepare(img).shape = ShapeErr
     THEN /\ outcome' = "ValueError"
          /\ UNCHANGED <<cache, out>>
     ELSE LET r == FeedForward(parameters, cache, Prepare(img))
          IN  /\ cache' = r.cache
              /\ IF r.err # "none"
                 THEN outcome' = r.err /\ UNCHANGED out
                 ELSE outcome' = "returned" /\ out' = Append(out, PredictionLine(r.A))
  /\ UNCHANGED <<config, parameters, growth_rate, J_hist, pc, i, X, y, cost, grads, itersDone>>

\* --------------------------------------------- feed_forward, called directly
FeedForwardCall(d) ==
  /\ pc = "idle" /\ calls < MaxCalls
  /\ calls' = calls + 1
  /\ call' = [name |-> "feed_forward", X |-> d.X.val.id]
  /\ LET r == FeedForward(parameters, cache, d.X)
     IN  /\ cache' = r.cache
         /\ outcome' = IF r.err # "none" THEN r.err ELSE "returned"
  /\ UNCHANGED <<config, parameters, growth_rate, J_hist, out, pc, i, X, y, cost, grads, itersDone>>

Next ==
  \/ \E d \in TrainSets(layers) : TrainCall(d)
  \/ TrainForward
  \/ TrainBackward
  \/ TrainUpdate
  \/ TrainRecord
  \/ TrainFinish
  \/ \E img \in Images, prepare \in BOOLEAN : Predict(img, prepare)
  \/ \E d \in TrainSets(layers) : FeedForwardCall(d)

Spec == Init /\ [][Next]_vars

\* one Model on which only train and predict are called
NextCalls ==
  \/ \E d \in TrainSets(layers) : TrainCall(d)
  \/ TrainForward
  \/ TrainBackward
  \/ TrainUpdate
  \/ TrainRecord
  \/ TrainFinish
  \/ \E img \in Images, prepare \in BOOLEAN : Predict(img, prepare)

SpecCalls == Init /\ [][NextCalls]_vars

\* one Model on which only train is called
NextTrain ==
  \/ \E d \in TrainSets(layers) : TrainCall(d)
  \/ TrainForward
  \/ TrainBackward
  \/ TrainUpdate
  \/ TrainRecord
  \/ TrainFinish

SpecTrain == Init /\ [][NextTrain]_vars

\* ===================================================================
\* The claims
\* ===================================================================
InTrain == pc \in {"forward", "backward", "update", "record", "finish"}

Last(J, k) == J[Len(J) + 1 - k]

\* C1: the early-stopping rule is evaluated after every iteration at whose end
\* the cost history holds at least 3 values, and train stops when
\* growth_rate < 0.25: the loop goes on to another iteration only if the rule
\* did not fire (so after the costs 1.0, 0.5, 0.49 no 4th iteration starts).
C1_StopsFromThreeCosts ==
  (pc = "forward" /\ i >= 1 /\ Len(J_hist) >= 3) => ~Slow(GrowthRate(J_hist))

\* C2: whenever back_propagate runs, the cache it reads is the one a forward
\* pass over the same X with the current parameters writes: record 0 holds X
\* and every other record was computed from X and the current parameters.
C2_CacheFromSameX ==
  pc = "backward" => cache = FeedForward(parameters, <<>>, X).cache

\* C3: a call of train executes at most num_iters iterations and ends in
\* exactly one of Converged (the rule fired in the last executed iteration) and
\* Exhausted (num_iters iterations executed, the rule fired in none).
C3_TwoOutcomes ==
  /\ InTrain => i < num_iters
  /\ pc = "finish" =>
       \/ outcome = "Converged" /\ ShouldCheck(J_hist) /\ Slow(GrowthRate(J_hist))
       \/ /\ outcome = "Exhausted" /\ i + 1 = num_iters
          /\ ~(ShouldCheck(J_hist) /\ Slow(GrowthRate(J_hist)))
  /\ (pc = "idle" /\ call.name = "train") => outcome \in {"Converged", "Exhausted"}

\* the same, of the calls of train that no exception ends
C3_WhenNotRaised ==
  /\ InTrain => i < num_iters
  /\ pc = "finish" =>
       \/ outcome = "Converged" /\ ShouldCheck(J_hist) /\ Slow(GrowthRate(J_hist))
       \/ /\ outcome = "Exhausted" /\ i + 1 = num_iters
          /\ ~(ShouldCheck(J_hist) /\ Slow(GrowthRate(J_hist)))
  /\ (pc = "idle" /\ call.name = "train") =>
       outcome \in {"Converged", "Exhausted", "ValueError"}

\* a forward pass has just returned
AfterForward ==
  \/ pc = "backward"
  \/ pc = "idle" /\ call.name \in {"predict", "feed_forward"} /\ outcome = "returned"

\* C4: after every feed_forward the cache holds exactly len(layers) records,
\* record 0 with an activation only and the others with an activation and a
\* pre-activation; the cache never holds more than len(layers) records.
C4_CacheRecords ==
  /\ Len(cache) <= Len(layers)
  /\ AfterForward =>
       /\ Len(cache) = Len(layers)
       /\ DOMAIN cache[1] = {"A"}
       /\ \A k \in 2 .. Len(cache) : DOMAIN cache[k] = {"A", "Z"}

\* a forward pass that found the records of an earlier one in the cache
C4_Witness ==
  /\ AfterForward /\ Len(layers) >= 3 /\ Len(cache) = Len(layers)
  /\ \/ pc = "backward" /\ i >= 1
     \/ pc = "idle" /\ calls >= 2

\* C5: there are exactly len(layers)-1 weight/bias pairs, W_k of shape
\* (layers[k], layers[k-1]) and b_k of shape (layers[k], 1), in every state,
\* and every gradient back_propagate returns has its parameter's shape.
C5_Shapes ==
  /\ DOMAIN parameters = {"W", "b"} \X (1 .. Len(layers) - 1)
  /\ \A k \in 1 .. Len(layers) - 1 :
       /\ parameters[<<"W", k>>].shape = <<layers[k + 1], layers[k]>>
       /\ parameters[<<"b", k>>].shape = <<layers[k + 1], 1>>
       /\ pc = "update" =>
            /\ grads[<<"dW", k>>].shape = <<layers[k + 1], layers[k]>>
            /\ grads[<<"db", k>>].shape = <<layers[k + 1], 1>>

C5_Witness ==
  /\ itersDone >= 2 /\ Len(layers) >= 3 /\ pc = "update"
  /\ \A n \in DOMAIN parameters : parameters[n].ver >= 2

\* the parameters as they were when the iteration began, as far as
\* back_propagate reads them
BeforeUpdate(params) == [n \in DOMAIN params |-> [params[n] EXCEPT !.ver = @ - 1]]

\* C6: at the end of the update loop of an iteration every W_j and b_j, j in
\* 1..len(layers)-1, is its old value minus learning_rate times its gradient,
\* the gradients being those back_propagate computes from the parameters as
\* they were before the loop; every layer is updated once per iteration.
C6_Update ==
  pc = "record" =>
    LET G == BackPropagate(BeforeUpdate(parameters), cache, y).grads
    IN  /\ grads = G
        /\ \A j \in 1 .. Len(layers) - 1 :
             /\ parameters[<<"W", j>>].ver = itersDone + 1
             /\ parameters[<<"b", j>>].ver = itersDone + 1
             /\ parameters[<<"W", j>>].by =
                  [op |-> "sub", base |-> itersDone, lr |-> learning_rate,
                   g |-> G[<<"dW", j>>].val]
             /\ parameters[<<"b", j>>].by =
                  [op |-> "sub", base |-> itersDone, lr |-> learning_rate,
                   g |-> G[<<"db", j>>].val]

C6_Witness == pc = "record" /\ itersDone >= 1 /\ Len(layers) >= 3 /\ i >= 1

IsPrefix(s, t) == Len(s) <= Len(t) /\ s = SubSeq(t, 1, Len(s))

\* C7: J_hist is append-only and gains exactly one value per completed
\* iteration: its length is the number of iterations completed so far, a step
\* keeps every entry it held, and predict leaves it as it is.
C7_AppendOnly ==
  /\ [](Len(J_hist) = itersDone)
  /\ [][/\ IsPrefix(J_hist, J_hist')
        /\ Len(J_hist') = Len(J_hist) + (itersDone' - itersDone)
        /\ (calls' # calls /\ call'.name = "predict") => J_hist' = J_hist]_vars

C7_Witness ==
  pc = "idle" /\ call.name = "predict" /\ outcome = "returned" /\ Len(J_hist) >= 2

\* C8: train emits the cost once for every executed iteration whose index i
\* satisfies i % 50 == 0, the one in which training stops included, and emits
\* a final cost when it terminates.
C8_Emits ==
  [][/\ (pc = "record" /\ i % PrintEvery = 0) =>
          /\ Len(out') >= Len(out) + 1
          /\ out'[Len(out) + 1] = [kind |-> "Cost at iteration", i |-> i, cost |-> cost]
     /\ (InTrain /\ pc' = "idle") => out' = Append(out, FinalLine(cost))]_vars

\* C9: predict runs one forward pass on its input and reports the resulting
\* probability for both values of the flag, without raising an error: with
\* prepare=True on the prepared image, with prepare=False on the input as given.
C9_PredictBothFlags ==
  [][(calls' # calls /\ call'.name = "predict") =>
       \E img \in Images :
         LET A == IF call'.prepare THEN Prepare(img) ELSE img
             r == FeedForward(parameters, cache, A)
         IN  /\ outcome' = "returned"
             /\ cache' = r.cache
             /\ out' = Append(out, PredictionLine(r.A))]_vars

\* the same, of the calls with prepare=True only
C9_WhenPrepared ==
  [][(calls' # calls /\ call'.name = "predict" /\ call'.prepare) =>
       \E img \in Images :
         LET r == FeedForward(parameters, cache, Prepare(img))
         IN  /\ outcome' = "returned"
             /\ cache' = r.cache
             /\ out' = Append(out, PredictionLine(r.A))]_vars

StoppedEarly == pc = "finish" /\ outcome = "Converged" /\ i + 1 < num_iters

\* C10: train stops early only when the cost has decelerated: the last cost is
\* not greater than the one before it and the last decrease is less than a
\* quarter of the decrease before it.
C10_OnlyWhenDecelerated ==
  StoppedEarly =>
    /\ Len(J_hist) >= 3
    /\ Last(J_hist, 1) <= Last(J_hist, 2)
    /\ 4 * (Last(J_hist, 2) - Last(J_hist, 1)) < Last(J_hist, 3) - Last(J_hist, 2)

\* C10, amended: train stops early only when growth_rate < 0.25.  After a step
\* that lowered the cost by more than epsilon, the last step raised the cost
\* or lowered it by less than a quarter of (that decrease less epsilon); after
\* a step that lowered it by exactly epsilon, the last step lowered the cost;
\* after any other step, the last step lowered the cost or raised it by less
\* than a quarter of (the rise before it plus epsilon).
C10_GrowthBelowQuarter ==
  StoppedEarly =>
    /\ Len(J_hist) >= 3
    /\ LET fall1 == Last(J_hist, 2) - Last(J_hist, 1)
           fall2 == Last(J_hist, 3) - Last(J_hist, 2)
       IN  IF fall2 > Epsilon
           THEN 4 * fall1 < fall2 - Epsilon
           ELSE IF fall2 = Epsilon THEN fall1 > 0
           ELSE 4 * (0 - fall1) < Epsilon - fall2

\* train stops early in an iteration in which the cost rose
C10_Witness == StoppedEarly /\ Last(J_hist, 1) > Last(J_hist, 2)
====
